---- MODULE Spec2Model ----
(***************************************************************************)
(* Guest-side attestation of csv-rs: the DCU report request               *)
(* (DcuGuest::get_report, src/api/dcu/mod.rs), the request codec          *)
(* (ReportReq::new, src/api/guest/types.rs) and the verification of the   *)
(* signing evidence (ReportSigner::verify, src/api/guest/types.rs).       *)
(*                                                                         *)
(* Byte arrays are sequences of naturals below 256.  The SM3 digest and   *)
(* the SM3 keyed tag come from the crypto provider (openssl); they are    *)
(* modelled as collision-free: the digest of a byte string is the value   *)
(* [src |-> <<"sm3", bytes>>, mask |-> zeros], and two digest values are  *)
(* equal exactly when they come from the same input and carry the same    *)
(* xor mask (the mask is how a byte of a stored digest is changed).       *)
(***************************************************************************)
EXTENDS Integers, Sequences, FiniteSets, TLC

(***************************************************************************)
(* Bounds of the model.  The arrays of the program are 64, 16, 32, 2084   *)
(* bytes long; their contents are modelled on shorter arrays.             *)
(***************************************************************************)
DataLen == 2
MnonceLen == 5
HashLen == 2
PekLen == 2
SnLen == 1
ReservedLen == 1
MaxNode == 2

(***************************************************************************)
(* Sizes of the wire structures, in bytes.                                 *)
(***************************************************************************)
DATA_SIZE == 64
MNONCE_SIZE == 16
HASH_SIZE == 32
PAGE_SIZE == 4096
SizeOfReportReq == DATA_SIZE + MNONCE_SIZE + HASH_SIZE

VARIABLES
    pc,            \* position of get_report
    data,          \* get_report's argument data: Option<[u8; 64]>
    mnonce,        \* get_report's argument mnonce: Option<[u8; 16]>
    mnonce_value,  \* the local mnonce_value
    topo,          \* the topology root: [readable, dirs], dirs the node directories
    fd,            \* the local fd (-1 when the open failed)
    fd_state,      \* the handle: [opens, closes]
    num_node,      \* the local num_node
    node,          \* the loop variable
    args,          \* the local args (MkfdIoctlSecurityAttestationArgs)
    report_request,\* the local report_request
    heap,          \* the buffers malloc returned: sequence of [size, content, frees]
    attempts,      \* sequence of node indices given to topology_sysfs_get_gpu_id
    failed,        \* nodes that failed locally (device id or exchange)
    exchanges,     \* the exchange calls issued, as the device saw them
    result,        \* what get_report returned
    reqlog,        \* ReportReq::new: the last two calls, newest first
    signer,        \* the ReportSigner verify is called on
    crafted,       \* the mnonce and anonce the signer was made for, and its original
    tampered,      \* the single byte of the signer that was changed, if any
    vlog,          \* ReportSigner::verify: the calls made, newest first
    request,       \* a ReportReq value held by a caller: None or Some(request)
    rlog           \* recover_mnonce: the last call, and its output fed back

vars == <<pc, data, mnonce, mnonce_value, topo, fd, fd_state, num_node, node, args,
          report_request, heap, attempts, failed, exchanges, result, reqlog,
          signer, crafted, tampered, vlog, request, rlog>>

reportVars == <<pc, data, mnonce, mnonce_value, topo, fd, fd_state, num_node, node,
                args, report_request, heap, attempts, failed, exchanges, result>>
outsideReport == <<reqlog, signer, crafted, tampered, vlog, request, rlog>>
outsideReq == <<reportVars, signer, crafted, tampered, vlog, request, rlog>>
outsideVerify == <<reportVars, reqlog, request, rlog>>
outsideFields == <<reportVars, reqlog, signer, crafted, tampered, vlog, rlog>>
outsideNonce == <<reportVars, reqlog, signer, crafted, tampered, vlog, request>>

(***************************************************************************)
(* Bytes, options and results.                                             *)
(***************************************************************************)
Zeros(n) == [i \in 1..n |-> 0]
None == <<>>
Some(x) == <<x>>
IsSome(o) == Len(o) = 1
Unwrap(o) == o[1]
Ok(v) == [ok |-> TRUE, val |-> v, err |-> "none"]
Err(e) == [ok |-> FALSE, val |-> <<>>, err |-> e]

(* The byte arrays the inputs are drawn from. *)
DataChoices == [1..DataLen -> {0, 103}]
MnonceChoices == {Zeros(MnonceLen), [i \in 1..MnonceLen |-> 112],
                  [i \in 1..MnonceLen |-> i]}
RandomNonces == {[i \in 1..MnonceLen |-> 200 + i], [i \in 1..MnonceLen |-> 17]}

(***************************************************************************)
(* The crypto provider: openssl's Hasher over SM3.  A hasher holds the    *)
(* bytes it was fed; finish gives the digest value of those bytes.         *)
(***************************************************************************)
BytesValue(bytes) == [src |-> <<"bytes">>, mask |-> bytes]
Sm3Digest(bytes) == [src |-> <<"sm3", bytes>>, mask |-> Zeros(HashLen)]
Hasher_new == <<>>
Hasher_update(h, bytes) == h \o bytes
Hasher_finish(h) == Sm3Digest(h)

(***************************************************************************)
(* ReportReq (guest/types.rs).                                             *)
(***************************************************************************)
ReportReq_default ==
    [data |-> Zeros(DataLen), mnonce |-> Zeros(MnonceLen),
     hash |-> BytesValue(Zeros(HashLen))]

calculate_hash_data_only(self, provider_ok) ==
    IF ~provider_ok THEN Err("Crypto")
    ELSE Ok([self EXCEPT !.hash = Hasher_finish(Hasher_update(Hasher_new, self.data))])

calculate_hash(self, provider_ok) ==
    IF ~provider_ok THEN Err("Crypto")
    ELSE LET h0 == Hasher_new
             h1 == Hasher_update(h0, self.data)
             h2 == Hasher_update(h1, self.mnonce)
         IN  Ok([self EXCEPT !.hash = Hasher_finish(h2)])

ReportReq_new(d, m, provider_ok) ==
    LET r0 == ReportReq_default
        r1 == IF IsSome(d) THEN [r0 EXCEPT !.data = Unwrap(d)] ELSE r0
        r2 == [r1 EXCEPT !.mnonce = m]
    IN  calculate_hash(r2, provider_ok)

(***************************************************************************)
(* AttestationReport (guest/types.rs) and the firmware's answer.          *)
(***************************************************************************)
AttestationReport_default ==
    [user_pubkey_digest |-> Zeros(HashLen), vm_id |-> Zeros(MnonceLen),
     vm_version |-> Zeros(MnonceLen), report_data |-> Zeros(DataLen),
     mnonce |-> Zeros(MnonceLen), measure |-> Zeros(HashLen),
     policy |-> 0, sig_usage |-> 0, sig_algo |-> 0, anonce |-> 0,
     sig |-> Zeros(HashLen)]

(* The report the firmware writes for a request: data and mnonce echoed. *)
FirmwareReport(req, an) ==
    [AttestationReport_default EXCEPT !.report_data = req.data,
                                      !.mnonce = req.mnonce,
                                      !.anonce = an]

(***************************************************************************)
(* The environment of get_report: the topology tree and the heap.         *)
(***************************************************************************)
NodeNames == 0..MaxNode
Topologies == [readable : BOOLEAN, dirs : SUBSET NodeNames]
AnonceChoices == {0, 16909060}

(* fs::read_dir(dirpath) ... .count(), and 0 when the directory cannot be read *)
num_subdirs(t) == IF t.readable THEN Cardinality(t.dirs) ELSE 0

(* the gpu_id file of a node exists only under the node's directory *)
GpuIdReadable(t, n) == n \in t.dirs
GpuIdOf(n) == 1000 + n

NoTopology == [readable |-> TRUE, dirs |-> {}]
NullPtr == 0
NoArgs == [gpu_id |-> 0, version |-> 0, request_data |-> NullPtr, request_size |-> 0,
           response_data |-> NullPtr, response_size |-> 0, fw_err |-> 0]
NoResult == [tag |-> "None", kind |-> "none", report |-> AttestationReport_default]
OkResult(r) == [tag |-> "Ok", kind |-> "none", report |-> r]
ErrResult(k) == [tag |-> "Err", kind |-> k, report |-> AttestationReport_default]

malloc(h, size, content) == Append(h, [size |-> size, content |-> content, frees |-> 0])
free(h, ptr) == IF ptr = NullPtr THEN h ELSE [h EXCEPT ![ptr].frees = @ + 1]

(***************************************************************************)
(* DcuGuest::get_report, statement by statement.                           *)
(***************************************************************************)
ReportIdle ==
    /\ pc = "idle" /\ data = None /\ mnonce = None /\ mnonce_value = Zeros(MnonceLen)
    /\ topo = NoTopology /\ fd = -1 /\ fd_state = [opens |-> 0, closes |-> 0]
    /\ num_node = 0 /\ node = 0 /\ args = NoArgs
    /\ report_request = ReportReq_default /\ heap = <<>> /\ attempts = <<>>
    /\ failed = {} /\ exchanges = <<>> /\ result = NoResult

(* lines 61-71: the call, and mnonce.unwrap_or_else(random) *)
Call ==
    /\ pc = "idle"
    /\ \E d \in {None} \cup {Some(x) : x \in DataChoices},
          m \in {None} \cup {Some(x) : x \in MnonceChoices},
          t \in Topologies, rnd \in RandomNonces :
          /\ data' = d
          /\ mnonce' = m
          /\ mnonce_value' = IF IsSome(m) THEN Unwrap(m) ELSE rnd
          /\ topo' = t
    /\ pc' = "open"
    /\ UNCHANGED <<fd, fd_state, num_node, node, args, report_request, heap, attempts,
                   failed, exchanges, result>>
    /\ UNCHANGED outsideReport

OpenDevice_ignores_failure ==
    /\ pc = "open"
    /\ \E opened \in BOOLEAN :
          /\ fd' = IF opened THEN 3 ELSE -1
          /\ fd_state' = IF opened THEN [fd_state EXCEPT !.opens = @ + 1] ELSE fd_state
          /\ pc' = "topology"
          /\ result' = result
    /\ UNCHANGED <<data, mnonce, mnonce_value, topo, num_node, node, args,
                   report_request, heap, attempts, failed, exchanges>>
    /\ UNCHANGED outsideReport

(* lines 73-76: open("/dev/mkfd"); return Err when it gives -1 *)
OpenDevice ==
    /\ pc = "open"
    /\ \E opened \in BOOLEAN :
          IF opened
          THEN /\ fd' = 3
               /\ fd_state' = [fd_state EXCEPT !.opens = @ + 1]
               /\ pc' = "topology"
               /\ result' = result
          ELSE /\ fd' = -1
               /\ fd_state' = fd_state
               /\ pc' = "done"
               /\ result' = ErrResult("Os")
    /\ UNCHANGED <<data, mnonce, mnonce_value, topo, num_node, node, args,
                   report_request, heap, attempts, failed, exchanges>>
    /\ UNCHANGED outsideReport

(* line 78: num_node = num_subdirs(...); line 79: node starts at 0 *)
ReadTopology ==
    /\ pc = "topology"
    /\ num_node' = num_subdirs(topo)
    /\ node' = 0
    /\ pc' = "loop"
    /\ UNCHANGED <<data, mnonce, mnonce_value, topo, fd, fd_state, args,
                   report_request, heap, attempts, failed, exchanges, result>>
    /\ UNCHANGED outsideReport

(* line 79: for node in 0..num_node *)
LoopHead ==
    /\ pc = "loop"
    /\ pc' = IF node < num_node THEN "resolve" ELSE "close"
    /\ UNCHANGED <<data, mnonce, mnonce_value, topo, fd, fd_state, num_node, node, args,
                   report_request, heap, attempts, failed, exchanges, result>>
    /\ UNCHANGED outsideReport

(* lines 80-89: if let Ok(gpu_id) = topology_sysfs_get_gpu_id(node), then args *)
Resolve ==
    /\ pc = "resolve"
    /\ attempts' = Append(attempts, node)
    /\ \E readable \in {r \in BOOLEAN : r => GpuIdReadable(topo, node)} :
          IF readable
          THEN /\ args' = [gpu_id |-> GpuIdOf(node), version |-> 1,
                           request_data |-> NullPtr, request_size |-> PAGE_SIZE,
                           response_data |-> NullPtr, response_size |-> PAGE_SIZE,
                           fw_err |-> 0]
               /\ pc' = "build"
               /\ UNCHANGED <<node, failed>>
          ELSE /\ failed' = failed \cup {node}
               /\ node' = node + 1
               /\ pc' = "loop"
               /\ args' = args
    /\ UNCHANGED <<data, mnonce, mnonce_value, topo, fd, fd_state, num_node,
                   report_request, heap, exchanges, result>>
    /\ UNCHANGED outsideReport

(* line 91: let report_request = ReportReq::new(mnonce_value)?; *)
BuildRequest ==
    /\ pc = "build"
    /\ \E provider_ok \in BOOLEAN :
          LET r == ReportReq_new(None, mnonce_value, provider_ok)
          IN  IF r.ok
              THEN /\ report_request' = r.val
                   /\ pc' = "alloc_req"
                   /\ result' = result
              ELSE /\ report_request' = report_request
                   /\ pc' = "done"
                   /\ result' = ErrResult(r.err)
    /\ UNCHANGED <<data, mnonce, mnonce_value, topo, fd, fd_state, num_node, node, args,
                   heap, attempts, failed, exchanges>>
    /\ UNCHANGED outsideReport

(* lines 92-99: malloc(size_of::<ReportReq>()), return Err on null, ptr.write *)
AllocRequest ==
    /\ pc = "alloc_req"
    /\ \E got \in BOOLEAN :
          IF got
          THEN /\ heap' = malloc(heap, SizeOfReportReq, <<report_request>>)
               /\ args' = [args EXCEPT !.request_data = Len(heap) + 1]
               /\ pc' = "alloc_rsp"
               /\ result' = result
          ELSE /\ UNCHANGED <<heap, args>>
               /\ pc' = "done"
               /\ result' = ErrResult("Alloc")
    /\ UNCHANGED <<data, mnonce, mnonce_value, topo, fd, fd_state, num_node, node,
                   report_request, attempts, failed, exchanges>>
    /\ UNCHANGED outsideReport

(* lines 101-108: malloc(PAGE_SIZE), return Err on null, memset 0 *)
AllocResponse ==
    /\ pc = "alloc_rsp"
    /\ \E got \in BOOLEAN :
          IF got
          THEN /\ heap' = malloc(heap, PAGE_SIZE, <<>>)
               /\ args' = [args EXCEPT !.response_data = Len(heap) + 1]
               /\ pc' = "ioctl"
               /\ result' = result
          ELSE /\ UNCHANGED <<heap, args>>
               /\ pc' = "done"
               /\ result' = ErrResult("Alloc")
    /\ UNCHANGED <<data, mnonce, mnonce_value, topo, fd, fd_state, num_node, node,
                   report_request, attempts, failed, exchanges>>
    /\ UNCHANGED outsideReport

(* line 110: perform_ioctl(fd, &mut args); the device fills the response *)
Exchange ==
    /\ pc = "ioctl"
    /\ \E good \in BOOLEAN, an \in AnonceChoices :
          LET sent == heap[args.request_data].content[1]
              rep == IF good THEN FirmwareReport(sent, an) ELSE AttestationReport_default
          IN  /\ exchanges' = Append(exchanges,
                     [node |-> node, gpu_id |-> args.gpu_id, version |-> args.version,
                      request |-> sent,
                      request_size |-> args.request_size,
                      request_alloc |-> heap[args.request_data].size,
                      response_size |-> args.response_size,
                      response_alloc |-> heap[args.response_data].size,
                      good |-> good, report |-> rep])
              /\ heap' = IF good
                         THEN [heap EXCEPT ![args.response_data].content = <<rep>>]
                         ELSE heap
              /\ pc' = IF good THEN "free_ok" ELSE "free_err"
    /\ UNCHANGED <<data, mnonce, mnonce_value, topo, fd, fd_state, num_node, node, args,
                   report_request, attempts, failed, result>>
    /\ UNCHANGED outsideReport

FreeAfterFailure_aborts ==
    /\ pc = "free_err"
    /\ heap' = free(free(heap, args.request_data), args.response_data)
    /\ failed' = failed \cup {node}
    /\ result' = ErrResult("Ioctl")
    /\ pc' = "done"
    /\ UNCHANGED <<data, mnonce, mnonce_value, topo, fd, fd_state, num_node, node, args,
                   report_request, attempts, exchanges>>
    /\ UNCHANGED outsideReport

(* lines 110-117: the exchange failed: free both buffers and continue *)
FreeAfterFailure ==
    /\ pc = "free_err"
    /\ heap' = free(free(heap, args.request_data), args.response_data)
    /\ failed' = failed \cup {node}
    /\ node' = node + 1
    /\ pc' = "loop"
    /\ UNCHANGED <<data, mnonce, mnonce_value, topo, fd, fd_state, num_node, args,
                   report_request, attempts, exchanges, result>>
    /\ UNCHANGED outsideReport

(* lines 119-124: the response is not read; free both buffers *)
FreeAfterSuccess ==
    /\ pc = "free_ok"
    /\ heap' = free(free(heap, args.request_data), args.response_data)
    /\ node' = node + 1
    /\ pc' = "loop"
    /\ UNCHANGED <<data, mnonce, mnonce_value, topo, fd, fd_state, num_node, args,
                   report_request, attempts, failed, exchanges, result>>
    /\ UNCHANGED outsideReport

(* lines 127-128: close(fd); Ok(AttestationReport::default()) *)
CloseAndReturn ==
    /\ pc = "close"
    /\ fd_state' = [fd_state EXCEPT !.closes = @ + 1]
    /\ result' = OkResult(AttestationReport_default)
    /\ pc' = "done"
    /\ UNCHANGED <<data, mnonce, mnonce_value, topo, fd, num_node, node, args,
                   report_request, heap, attempts, failed, exchanges>>
    /\ UNCHANGED outsideReport

(***************************************************************************)
(* ReportReq::new called on its own: reqlog keeps the last two calls.      *)
(***************************************************************************)
ReqIdle == reqlog = <<>> /\ request = None /\ rlog = <<>>

NewRequest ==
    /\ \E d \in {None} \cup {Some(x) : x \in DataChoices},
          m \in MnonceChoices, provider_ok \in BOOLEAN :
          reqlog' = <<[data |-> d, mnonce |-> m, provider_ok |-> provider_ok,
                       out |-> ReportReq_new(d, m, provider_ok)]>>
                    \o SubSeq(reqlog, 1, IF Len(reqlog) > 0 THEN 1 ELSE 0)
    /\ UNCHANGED outsideReq

(***************************************************************************)
(* A ReportReq value in a caller's hands: made by ReportReq::default or    *)
(* ReportReq::new, and written through its public fields.                  *)
(***************************************************************************)
HashChoices ==
    {BytesValue(Zeros(HashLen)), BytesValue([i \in 1..HashLen |-> 19])}
    \cup {Sm3Digest(d \o m) : d \in DataChoices, m \in MnonceChoices}

(* let request = ReportReq::default(); *)
MakeDefault ==
    /\ request' = Some(ReportReq_default)
    /\ UNCHANGED outsideFields

(* let request = ReportReq::new(data, mnonce)?; *)
MakeNew ==
    /\ \E d \in {None} \cup {Some(x) : x \in DataChoices},
          m \in MnonceChoices, provider_ok \in BOOLEAN :
          LET r == ReportReq_new(d, m, provider_ok)
          IN  request' = IF r.ok THEN Some(r.val) ELSE request
    /\ UNCHANGED outsideFields

(* request.data = x; *)
AssignData ==
    /\ IsSome(request)
    /\ \E x \in DataChoices : request' = Some([Unwrap(request) EXCEPT !.data = x])
    /\ UNCHANGED outsideFields

(* request.mnonce = x; *)
AssignMnonce ==
    /\ IsSome(request)
    /\ \E x \in MnonceChoices : request' = Some([Unwrap(request) EXCEPT !.mnonce = x])
    /\ UNCHANGED outsideFields

(* request.hash = x; *)
AssignHash ==
    /\ IsSome(request)
    /\ \E x \in HashChoices : request' = Some([Unwrap(request) EXCEPT !.hash = x])
    /\ UNCHANGED outsideFields

(***************************************************************************)
(* The keyed tag of the crypto provider (pkey::PKey::hmac, sign::Signer). *)
(***************************************************************************)
HmacSm3(key, msg) == [src |-> <<"hmac-sm3", key, msg>>, mask |-> Zeros(HashLen)]
Signer_new(key) == [key |-> key, fed |-> <<>>]
Signer_update(sig, bytes) == [sig EXCEPT !.fed = @ \o bytes]
Signer_sign_to_vec(sig) == HmacSm3(sig.key, sig.fed)

(***************************************************************************)
(* ReportSigner (guest/types.rs).                                          *)
(***************************************************************************)
RECURSIVE XorBits(_, _, _)
XorBits(a, b, n) ==
    IF n = 0 THEN 0
    ELSE (((a % 2) + (b % 2)) % 2) + 2 * XorBits(a \div 2, b \div 2, n - 1)
Xor8(a, b) == XorBits(a, b, 8)

(* anonce.to_le_bytes() *)
to_le_bytes(an) == [i \in 1..4 |-> (an \div (256 ^ (i - 1))) % 256]

recover_mnonce_adds(m, an) ==
    LET anonce_array == to_le_bytes(an)
    IN  [i \in 1..Len(m) |-> (m[i] + anonce_array[((i - 1) % 4) + 1]) % 256]

recover_mnonce_big_endian(m, an) ==
    LET anonce_array == to_le_bytes(an)
    IN  [i \in 1..Len(m) |-> Xor8(m[i], anonce_array[4 - ((i - 1) % 4)])]

recover_mnonce(m, an) ==
    LET anonce_array == to_le_bytes(an)
    IN  [i \in 1..Len(m) |-> Xor8(m[i], anonce_array[((i - 1) % 4) + 1])]

ReportSigner_default ==
    [pek_cert |-> Zeros(PekLen), sn |-> Zeros(SnLen), reserved |-> Zeros(ReservedLen),
     mac |-> BytesValue(Zeros(HashLen))]

verify_skips_sn(self, m, an, provider_ok) ==
    LET sig == Signer_update(Signer_update(Signer_new(recover_mnonce(m, an)),
                                           self.pek_cert), self.reserved)
    IN  IF ~provider_ok THEN [res |-> Err("Crypto"), self |-> self]
        ELSE IF Signer_sign_to_vec(sig) # self.mac
             THEN [res |-> Err("BadSignature"), self |-> self]
             ELSE [res |-> Ok(<<>>), self |-> [self EXCEPT !.reserved = Zeros(ReservedLen)]]

verify_keeps_reserved(self, m, an, provider_ok) ==
    LET sig == Signer_update(Signer_update(Signer_update(
                   Signer_new(recover_mnonce(m, an)), self.pek_cert), self.sn),
                   self.reserved)
    IN  IF ~provider_ok THEN [res |-> Err("Crypto"), self |-> self]
        ELSE IF Signer_sign_to_vec(sig) # self.mac
             THEN [res |-> Err("BadSignature"), self |-> self]
             ELSE [res |-> Ok(<<>>), self |-> self]

verify_zeroes_first(self, m, an, provider_ok) ==
    LET sig == Signer_update(Signer_update(Signer_update(
                   Signer_new(recover_mnonce(m, an)), self.pek_cert), self.sn),
                   self.reserved)
        zeroed == [self EXCEPT !.reserved = Zeros(ReservedLen)]
    IN  IF ~provider_ok THEN [res |-> Err("Crypto"), self |-> zeroed]
        ELSE IF Signer_sign_to_vec(sig) # self.mac
             THEN [res |-> Err("BadSignature"), self |-> zeroed]
             ELSE [res |-> Ok(<<>>), self |-> zeroed]

verify(self, m, an, provider_ok) ==
    LET real_mnonce == recover_mnonce(m, an)
        sig0 == Signer_new(real_mnonce)
        sig1 == Signer_update(sig0, self.pek_cert)
        sig2 == Signer_update(sig1, self.sn)
        sig3 == Signer_update(sig2, self.reserved)
    IN  IF ~provider_ok THEN [res |-> Err("Crypto"), self |-> self]
        ELSE IF Signer_sign_to_vec(sig3) # self.mac
             THEN [res |-> Err("BadSignature"), self |-> self]
             ELSE [res |-> Ok(<<>>), self |-> [self EXCEPT !.reserved = Zeros(ReservedLen)]]

(***************************************************************************)
(* verify called on signers the firmware made, and on such signers with    *)
(* one byte changed.                                                       *)
(***************************************************************************)
PekChoices == {Zeros(PekLen), [i \in 1..PekLen |-> 48 + i]}
SnChoices == {Zeros(SnLen), [i \in 1..SnLen |-> 7]}
ReservedChoices == {Zeros(ReservedLen), [i \in 1..ReservedLen |-> 9]}
VerifyMnonces == {[i \in 1..MnonceLen |-> 112], [i \in 1..MnonceLen |-> i]}
TamperBytes == {0, 1}

(* the evidence the firmware writes for the masked mnonce m and its anonce an *)
FirmwareSigner(p, s, r, m, an) ==
    [pek_cert |-> p, sn |-> s, reserved |-> r,
     mac |-> HmacSm3(recover_mnonce(m, an), p \o s \o r)]

NoCraft == [valid |-> FALSE, mnonce |-> Zeros(MnonceLen), anonce |-> 0,
            original |-> ReportSigner_default]
NoTamper == [field |-> "none", index |-> 0]

VerifyIdle ==
    /\ signer = ReportSigner_default /\ crafted = NoCraft
    /\ tampered = NoTamper /\ vlog = <<>>

VerifyInit ==
    /\ tampered = NoTamper /\ vlog = <<>>
    /\ \/ /\ signer = ReportSigner_default /\ crafted = NoCraft
       \/ \E p \in PekChoices, s \in SnChoices, r \in ReservedChoices,
             m \in VerifyMnonces, an \in AnonceChoices :
             /\ signer = FirmwareSigner(p, s, r, m, an)
             /\ crafted = [valid |-> TRUE, mnonce |-> m, anonce |-> an,
                           original |-> signer]

(* one byte of a public field of the signer is given another value *)
Tamper ==
    /\ tampered = NoTamper
    /\ \E f \in {"pek_cert", "sn", "reserved", "mac"}, b \in TamperBytes :
          LET arr == IF f = "mac" THEN signer.mac.mask ELSE signer[f]
          IN  \E i \in 1..Len(arr) :
                 /\ arr[i] # b
                 /\ signer' = IF f = "mac"
                              THEN [signer EXCEPT !.mac.mask[i] = b]
                              ELSE [signer EXCEPT ![f][i] = b]
                 /\ tampered' = [field |-> f, index |-> i]
    /\ UNCHANGED <<crafted, vlog>>
    /\ UNCHANGED outsideVerify

(* a call of signer.verify(mnonce, anonce); vlog keeps the last two calls *)
Verify ==
    /\ \E m \in VerifyMnonces, an \in AnonceChoices, provider_ok \in BOOLEAN :
          LET out == verify(signer, m, an, provider_ok)
          IN  /\ signer' = out.self
              /\ vlog' = <<[mnonce |-> m, anonce |-> an, provider_ok |-> provider_ok,
                            before |-> signer, after |-> out.self, res |-> out.res]>>
                         \o SubSeq(vlog, 1, IF Len(vlog) > 0 THEN 1 ELSE 0)
    /\ UNCHANGED <<crafted, tampered>>
    /\ UNCHANGED outsideVerify

(***************************************************************************)
(* recover_mnonce called on its own, and called again on its output with   *)
(* the same anonce.  An anonce is a u32; the values used are below 2^31.   *)
(***************************************************************************)
NonceInputs == [1..MnonceLen -> {0, 255}] \cup {<<>>, <<1, 2, 3>>, <<112, 233, 62, 161>>}
NonceAnonces == {0, 16909060, 65280, 2147483647}

RecoverMnonce ==
    /\ \E m \in NonceInputs, an \in NonceAnonces :
          rlog' = <<[mnonce |-> m, anonce |-> an, out |-> recover_mnonce(m, an),
                     again |-> None]>>
    /\ UNCHANGED outsideNonce

RecoverAgain ==
    /\ rlog # <<>> /\ rlog[1].again = None
    /\ rlog' = <<[rlog[1] EXCEPT
                     !.again = Some(recover_mnonce(rlog[1].out, rlog[1].anonce))]>>
    /\ UNCHANGED outsideNonce

(***************************************************************************)
(* The layout of the #[repr(C)] structures: each field is [size, align],   *)
(* a field starts at the next multiple of its alignment, and the size of   *)
(* the structure is rounded up to its largest alignment.                   *)
(***************************************************************************)
Bytes(n) == [size |-> n, align |-> 1]
U32 == [size |-> 4, align |-> 4]

AlignUp(x, a) == ((x + a - 1) \div a) * a
RECURSIVE EndOffset(_, _)
EndOffset(fields, k) ==
    IF k = 0 THEN 0
    ELSE AlignUp(EndOffset(fields, k - 1), fields[k].align) + fields[k].size
RECURSIVE MaxAlign(_, _)
MaxAlign(fields, k) ==
    IF k = 0 THEN 1
    ELSE LET a == MaxAlign(fields, k - 1)
         IN  IF fields[k].align > a THEN fields[k].align ELSE a
align_of(fields) == MaxAlign(fields, Len(fields))
size_of(fields) == AlignUp(EndOffset(fields, Len(fields)), align_of(fields))
Struct(fields) == [size |-> size_of(fields), align |-> align_of(fields)]

ReportReqFields == <<Bytes(DATA_SIZE), Bytes(MNONCE_SIZE), Bytes(HASH_SIZE)>>
AttestationReportFields ==
    <<Bytes(32), Bytes(16), Bytes(16), Bytes(64), Bytes(16), Bytes(32),
      U32, U32, U32, U32, Bytes(144)>>
ReportSignerFields == <<Bytes(2084), Bytes(64), Bytes(32), Bytes(32)>>

RspReservedLen_forgets_signer == 4096 - size_of(AttestationReportFields)

(* reserved: [u8; 4096 - (size_of::<AttestationReport>() + size_of::<ReportSigner>())] *)
RspReservedLen ==
    4096 - (size_of(AttestationReportFields) + size_of(ReportSignerFields))

ReportRspFields ==
    <<Struct(AttestationReportFields), Struct(ReportSignerFields), Bytes(RspReservedLen)>>

(***************************************************************************)
(* The specifications.                                                     *)
(***************************************************************************)
Init == ReportIdle /\ ReqIdle /\ VerifyIdle
Next ==
    \/ Call \/ OpenDevice \/ ReadTopology \/ LoopHead \/ Resolve \/ BuildRequest
    \/ AllocRequest \/ AllocResponse \/ Exchange \/ FreeAfterFailure
    \/ FreeAfterSuccess \/ CloseAndReturn
Spec == Init /\ [][Next]_vars

InitReq == ReportIdle /\ ReqIdle /\ VerifyIdle
NextReq == NewRequest
SpecReq == InitReq /\ [][NextReq]_vars

InitVerify == ReportIdle /\ ReqIdle /\ VerifyInit
NextVerify == Tamper \/ Verify
SpecVerify == InitVerify /\ [][NextVerify]_vars

InitFields == ReportIdle /\ ReqIdle /\ VerifyIdle
NextFields == MakeDefault \/ MakeNew \/ AssignData \/ AssignMnonce \/ AssignHash
SpecFields == InitFields /\ [][NextFields]_vars

InitNonce == ReportIdle /\ ReqIdle /\ VerifyIdle
NextNonce == RecoverMnonce \/ RecoverAgain
SpecNonce == InitNonce /\ [][NextNonce]_vars

(***************************************************************************)
(* The claims about get_report (specification Spec).                       *)
(***************************************************************************)
Returned == pc = "done"
DeviceOpened == fd_state.opens = 1
Exchanged == {exchanges[i] : i \in 1..Len(exchanges)}
Attempted == {attempts[i] : i \in 1..Len(attempts)}
GivenData == IF IsSome(data) THEN Unwrap(data) ELSE Zeros(DataLen)

(* C1: whenever get_report has returned after opening the device, the     *)
(* handle has been closed exactly once, on every return path.              *)
C1_ClosedExactlyOnce ==
    (Returned /\ DeviceOpened) => fd_state.closes = 1

(* C2: once a node's iteration is left (next iteration, close, or a       *)
(* return), every buffer allocated so far has been freed exactly once.     *)
C2_BuffersReleasedOnce ==
    pc \in {"loop", "resolve", "close", "done"} =>
        \A i \in 1..Len(heap) : heap[i].frees = 1

(* C3: when the device was opened and no node's exchange succeeded (all   *)
(* failed, or there was no node), get_report does not return a report.     *)
C3_AllNodesFailedIsFailure ==
    (Returned /\ DeviceOpened /\ \A e \in Exchanged : ~e.good) => result.tag = "Err"

(* C4: when some node's exchange succeeded, the returned report is the    *)
(* one the device wrote for a successful node, and its mnonce is the      *)
(* mnonce of the request (the caller's, when one was given).               *)
C4_ReportFromSuccessfulNode ==
    (Returned /\ result.tag = "Ok" /\ \E e \in Exchanged : e.good) =>
        /\ \E e \in Exchanged : e.good /\ result.report = e.report
        /\ result.report.mnonce = mnonce_value
        /\ IsSome(mnonce) => result.report.mnonce = Unwrap(mnonce)

C6_OpenFailureIsImmediate ==
    fd_state.opens = 0 =>
        /\ pc \in {"idle", "open", "done"}
        /\ attempts = <<>> /\ heap = <<>> /\ exchanges = <<>>
        /\ fd_state.closes = 0
        /\ Returned => result = ErrResult("Os")

C6_Witness ==
    /\ Returned /\ fd = -1 /\ result = ErrResult("Os")
    /\ topo.readable /\ topo.dirs # {}

(* C7: every exchange call declares for the request the size of the       *)
(* allocated request buffer (the size of ReportReq) and for the response  *)
(* the size of the allocated response buffer (PAGE_SIZE).                  *)
C7_LengthsMatchAllocations ==
    \A e \in Exchanged :
        /\ e.request_size = e.request_alloc /\ e.request_alloc = SizeOfReportReq
        /\ e.response_size = e.response_alloc /\ e.response_alloc = PAGE_SIZE

(* C8: every request sent carries the caller's data (zeros when None),    *)
(* the request mnonce, and the digest of exactly those two.                *)
C8_RequestCarriesCallerData ==
    \A e \in Exchanged :
        /\ e.request.data = GivenData
        /\ e.request.mnonce = mnonce_value
        /\ e.request.hash = Sm3Digest(GivenData \o mnonce_value)

(***************************************************************************)
(* The claim about ReportReq::new (specification SpecReq).                 *)
(***************************************************************************)
EffectiveData(c) == IF IsSome(c.data) THEN Unwrap(c.data) ELSE Zeros(DataLen)

(* C9: a request built by ReportReq::new(data, mnonce) has the given data *)
(* (zeros when omitted), the given mnonce, and hash = digest(data ||      *)
(* mnonce); builds that differ in data or mnonce give unequal requests.    *)
C9_NewBindsDataAndMnonce ==
    /\ \A i \in 1..Len(reqlog) :
          LET c == reqlog[i]
          IN  c.out.ok =>
                 /\ c.out.val.data = EffectiveData(c)
                 /\ c.out.val.mnonce = c.mnonce
                 /\ c.out.val.hash = Sm3Digest(EffectiveData(c) \o c.mnonce)
    /\ (Len(reqlog) = 2 /\ reqlog[1].out.ok /\ reqlog[2].out.ok
        /\ (EffectiveData(reqlog[1]) # EffectiveData(reqlog[2])
            \/ reqlog[1].mnonce # reqlog[2].mnonce))
       => /\ reqlog[1].out.val # reqlog[2].out.val
          /\ reqlog[1].out.val.hash # reqlog[2].out.val.hash

C9_Witness ==
    /\ Len(reqlog) = 2 /\ reqlog[1].out.ok /\ reqlog[2].out.ok
    /\ reqlog[1].data = None /\ IsSome(reqlog[2].data)
    /\ reqlog[1].mnonce # reqlog[2].mnonce
    /\ reqlog[2].out.val.data # Zeros(DataLen)

(***************************************************************************)
(* The claim about ReportSigner::verify (specification SpecVerify).        *)
(***************************************************************************)
(* the tag the claim speaks of, for the signer s and the call's mnonce, anonce *)
ExpectedTag(s, m, an) ==
    HmacSm3(recover_mnonce(m, an), s.pek_cert \o s.sn \o s.reserved)

Flat(s) == s.pek_cert \o s.sn \o s.reserved \o s.mac.mask
SingleByteChange(a, b) ==
    /\ a.mac.src = b.mac.src
    /\ Cardinality({i \in 1..Len(Flat(a)) : Flat(a)[i] # Flat(b)[i]}) = 1

(* C10 as stated: verify succeeds iff mac equals the keyed tag over       *)
(* pek_cert || sn || reserved under the recovered mnonce, and returns      *)
(* BadSignature in every other case.                                       *)
C10_AsStated ==
    vlog # <<>> =>
        LET c == vlog[1]
        IN  /\ c.res.ok <=> c.before.mac = ExpectedTag(c.before, c.mnonce, c.anonce)
            /\ ~c.res.ok => c.res.err = "BadSignature"

(* C10 amended: when the crypto provider's calls succeed, verify succeeds *)
(* iff mac equals the keyed tag and returns BadSignature otherwise; when   *)
(* a provider call fails verify returns that failure; a valid signer with  *)
(* one byte of pek_cert, sn, reserved or mac changed never verifies.       *)
C10_VerifyIffTagMatches ==
    vlog # <<>> =>
        LET c == vlog[1]
            match == c.before.mac = ExpectedTag(c.before, c.mnonce, c.anonce)
        IN  /\ c.res.ok <=> (c.provider_ok /\ match)
            /\ (c.provider_ok /\ ~match) => c.res.err = "BadSignature"
            /\ ~c.provider_ok => c.res.err = "Crypto"
            /\ (crafted.valid /\ SingleByteChange(c.before, crafted.original)
                /\ c.mnonce = crafted.mnonce /\ c.anonce = crafted.anonce)
               => ~c.res.ok

C10_Witness ==
    /\ Len(vlog) = 2 /\ crafted.valid
    /\ vlog[2].res.ok /\ vlog[2].before = crafted.original
    /\ vlog[1].provider_ok /\ vlog[1].res.err = "BadSignature"
    /\ SingleByteChange(vlog[1].before, crafted.original)
    /\ vlog[1].mnonce = crafted.mnonce /\ vlog[1].anonce = crafted.anonce

(* the calls of verify that vlog holds *)
VerifyCalls == {vlog[i] : i \in 1..Len(vlog)}

(* C11: after a call of verify that returns success, reserved is all-zero *)
(* whatever it was before the call, and pek_cert, sn and mac are as before. *)
C11_SuccessZeroesReserved ==
    \A c \in VerifyCalls :
        c.res.ok =>
            /\ c.after.reserved = Zeros(ReservedLen)
            /\ c.after.pek_cert = c.before.pek_cert
            /\ c.after.sn = c.before.sn
            /\ c.after.mac = c.before.mac

C11_Witness ==
    /\ vlog # <<>> /\ vlog[1].res.ok
    /\ vlog[1].before.reserved # Zeros(ReservedLen)
    /\ signer = vlog[1].after /\ signer.reserved = Zeros(ReservedLen)

(***************************************************************************)
(* The claims about recover_mnonce (specification SpecNonce).              *)
(***************************************************************************)
(* C12: recovering twice under the same anonce gives back the mnonce:      *)
(* recover_mnonce(recover_mnonce(mnonce, anonce), anonce) = mnonce.        *)
C12_RecoverIsInvolution ==
    (rlog # <<>> /\ IsSome(rlog[1].again)) => Unwrap(rlog[1].again) = rlog[1].mnonce

C12_Witness ==
    /\ rlog # <<>> /\ IsSome(rlog[1].again)
    /\ Len(rlog[1].mnonce) = MnonceLen
    /\ rlog[1].out # rlog[1].mnonce
    /\ Unwrap(rlog[1].again) = rlog[1].mnonce

RECURSIVE ShiftRight(_, _)
ShiftRight(x, k) == IF k = 0 THEN x ELSE ShiftRight(x \div 2, k - 1)
BitOf(x, k) == ShiftRight(x, k) % 2

(* C17: the output has the length of the input, and bit k of its byte i    *)
(* (counted from 0) is bit k of mnonce[i] xor bit 8 * (i mod 4) + k of     *)
(* anonce, that is mnonce[i] XOR the little-endian byte i mod 4 of anonce.  *)
C17_RecoverXorsLittleEndian ==
    rlog # <<>> =>
        LET c == rlog[1]
        IN  /\ Len(c.out) = Len(c.mnonce)
            /\ \A i \in 1..Len(c.mnonce) :
                  /\ c.out[i] \in 0..255
                  /\ \A k \in 0..7 :
                        BitOf(c.out[i], k) =
                            (BitOf(c.mnonce[i], k)
                             + BitOf(c.anonce, 8 * ((i - 1) % 4) + k)) % 2

C17_Witness ==
    /\ rlog # <<>> /\ rlog[1].anonce = 16909060
    /\ Len(rlog[1].mnonce) = MnonceLen /\ MnonceLen > 4
    /\ rlog[1].mnonce = [i \in 1..MnonceLen |-> 255]
    /\ rlog[1].out[1] = 251 /\ rlog[1].out[4] = 254 /\ rlog[1].out[5] = 251

(***************************************************************************)
(* The claim about the public interface of ReportReq (SpecFields).         *)
(***************************************************************************)
(* C13: every ReportReq value obtained through ReportReq::new,             *)
(* ReportReq::default and assignments to its public fields has             *)
(* hash = digest(data || mnonce).                                          *)
C13_HashAlwaysBound ==
    IsSome(request) =>
        Unwrap(request).hash = Sm3Digest(Unwrap(request).data \o Unwrap(request).mnonce)

(***************************************************************************)
(* The claims about the enumeration of the topology (specification Spec).  *)
(***************************************************************************)
TopologyRead == DeviceOpened /\ pc \notin {"idle", "open", "topology"}
Discovered == IF topo.readable THEN topo.dirs ELSE {}
AttemptCount(n) == Cardinality({i \in 1..Len(attempts) : attempts[i] = n})

(* C14: when the topology root cannot be read, what the enumeration gives  *)
(* differs from what it gives for a readable root with no node.            *)
C14_UnreadableRootIsFailure ==
    (TopologyRead /\ ~topo.readable) => num_node # num_subdirs(NoTopology)

(* C16: only discovered node directories are attempted, whatever their     *)
(* names, and a call that ran to its end has resolved each discovered      *)
(* node exactly once.                                                      *)
C16_EachDiscoveredNodeOnce ==
    /\ \A a \in Attempted : a \in Discovered
    /\ (Returned /\ result.tag = "Ok") => \A d \in Discovered : AttemptCount(d) = 1

(***************************************************************************)
(* The claim about the wire sizes (specification Spec).                    *)
(***************************************************************************)
(* C15: ReportReq is 64 + 16 + 32 = 112 bytes with no padding, and         *)
(* size(AttestationReport) + size(ReportSigner) + size(padding) is exactly *)
(* 4096 = PAGE_SIZE, the padding length being non-negative; the buffers   *)
(* get_report allocates have these two sizes.                              *)
C15_WireSizesFixed ==
    /\ \A i \in 1..Len(heap) :
          heap[i].size \in {size_of(ReportReqFields), size_of(ReportRspFields)}
    /\ size_of(ReportReqFields) = 112
    /\ size_of(ReportReqFields) = DATA_SIZE + MNONCE_SIZE + HASH_SIZE
    /\ size_of(ReportReqFields) = SizeOfReportReq
    /\ RspReservedLen >= 0
    /\ size_of(AttestationReportFields) + size_of(ReportSignerFields) + RspReservedLen
          = PAGE_SIZE
    /\ size_of(ReportRspFields) = 4096
    /\ PAGE_SIZE = 4096

C15_Witness ==
    /\ \E i \in 1..Len(heap) : heap[i].size = size_of(ReportReqFields)
    /\ \E i \in 1..Len(heap) : heap[i].size = size_of(ReportRspFields)
    /\ size_of(AttestationReportFields) = 336 /\ size_of(ReportSignerFields) = 2212
    /\ RspReservedLen = 1548

(***************************************************************************)
(* The claims about repeated and failing calls of verify (SpecVerify).     *)
(***************************************************************************)
(* vlog holds a successful call followed by a call with the same mnonce    *)
(* and anonce on the signer as the first call left it                      *)
RepeatedAfterSuccess ==
    /\ Len(vlog) = 2 /\ vlog[2].res.ok
    /\ vlog[1].mnonce = vlog[2].mnonce /\ vlog[1].anonce = vlog[2].anonce
    /\ vlog[1].before = vlog[2].after

(* C18 as stated (with a working crypto provider): when verify succeeded,  *)
(* a second call with the same mnonce and anonce on the same signer        *)
(* succeeds too, for every initial value of reserved.                      *)
C18_AsStated ==
    (RepeatedAfterSuccess /\ vlog[1].provider_ok) => vlog[1].res.ok

(* C18 amended: the second call succeeds when reserved was all-zero before *)
(* the first call; when it was not, the first call zeroed it and the       *)
(* second call returns BadSignature; a provider failure is returned as it  *)
(* is.                                                                     *)
C18_RepeatSucceedsIffReservedWasZero ==
    RepeatedAfterSuccess =>
        /\ vlog[1].res.ok <=>
              (vlog[1].provider_ok /\ vlog[2].before.reserved = Zeros(ReservedLen))
        /\ (vlog[1].provider_ok /\ vlog[2].before.reserved # Zeros(ReservedLen))
              => vlog[1].res.err = "BadSignature"
        /\ ~vlog[1].provider_ok => vlog[1].res.err = "Crypto"

C18_Witness ==
    /\ RepeatedAfterSuccess /\ vlog[1].provider_ok
    /\ vlog[2].before.reserved # Zeros(ReservedLen)
    /\ vlog[1].res.err = "BadSignature"

(* C19: a call of verify that returns an error (BadSignature or a failure  *)
(* of the crypto provider) leaves pek_cert, sn, reserved and mac as they   *)
(* were; reserved changes only in a call that succeeds.                    *)
C19_FailureHasNoEffect ==
    \A c \in VerifyCalls :
        /\ ~c.res.ok =>
              /\ c.after.pek_cert = c.before.pek_cert /\ c.after.sn = c.before.sn
              /\ c.after.reserved = c.before.reserved /\ c.after.mac = c.before.mac
        /\ c.after.reserved # c.before.reserved => c.res.ok

C19_Witness ==
    /\ Len(vlog) = 2
    /\ vlog[1].res.err = "BadSignature" /\ vlog[2].res.err = "Crypto"
    /\ vlog[2].before.reserved # Zeros(ReservedLen)
    /\ vlog[1].before = vlog[2].before /\ signer = vlog[2].before
====
